---------------------------- MODULE Spec2Model ----------------------------
(***************************************************************************)
(* Tic-Tac-Toe board (tic_tac_toe.py), the players (player.py) and the     *)
(* turn loop play() (game.py) of python-begginer-projects, as a state      *)
(* machine.  The board is a function over the Python list indices 0..8.    *)
(***************************************************************************)
EXTENDS Integers, Sequences, FiniteSets, TLC

\* ------------------------------------------------------------------------
\* TicTacToe class constants
\* ------------------------------------------------------------------------
ROWS == 3

COLS == 3

TOTAL_CELLS == ROWS * COLS

Cells == 0 .. (TOTAL_CELLS - 1)

\* The content of a free cell, ' '.
EMPTY == " "

\* Python's None for current_winner and for play()'s return value.
NONE == "None"

\* Python's None for a 'position' entry (kept an integer so that it compares
\* with cell indices).
NoPosition == -1

\* math.inf: larger than every score, which is at most TOTAL_CELLS.
INF == 1000

Letters == {"x", "o"}

\* TicTacToe.__init__
NewGame == [board |-> [i \in Cells |-> EMPTY], current_winner |-> NONE]

\* ------------------------------------------------------------------------
\* TicTacToe methods.  A game object is [board, current_winner].
\* ------------------------------------------------------------------------
\* enumerate(self.board): the indices in list order.
Enumerate == [k \in 1 .. TOTAL_CELLS |-> k - 1]

\* [i for i, spot in enumerate(self.board) if spot == ' ']
available_moves(game) == SelectSeq(Enumerate, LAMBDA i : game.board[i] = EMPTY)

\* An empty_squares that never reports a full board.
empty_squares_always(game) == TRUE

empty_squares(game) == available_moves(game) # << >>

num_empty_squares(game) == Len(available_moves(game))

\* "x in list"
InList(x, list) == \E k \in 1 .. Len(list) : list[k] = x

\* check_winner without the test of the diagonals.
check_winner_no_diagonals(board, square, letter) ==
    LET row_start == (square \div ROWS) * ROWS
        col_index == square % COLS
    IN  \/ \A i \in 0 .. (COLS - 1) : board[row_start + i] = letter
        \/ \A i \in 0 .. (ROWS - 1) : board[col_index + i * COLS] = letter

\* check_winner without the test of the right-to-left diagonal.
check_winner_one_diagonal(board, square, letter) ==
    LET row_start == (square \div ROWS) * ROWS
        col_index == square % COLS
    IN  \/ \A i \in 0 .. (COLS - 1) : board[row_start + i] = letter
        \/ \A i \in 0 .. (ROWS - 1) : board[col_index + i * COLS] = letter
        \/ square % 2 = 0 /\ \A i \in {0, 4, 8} : board[i] = letter

\* check_winner with the row taken at row_index instead of row_start.
check_winner_row_offset(board, square, letter) ==
    LET row_index == square \div ROWS
        col_index == square % COLS
    IN  \/ \A i \in 0 .. (COLS - 1) : board[row_index + i] = letter
        \/ \A i \in 0 .. (ROWS - 1) : board[col_index + i * COLS] = letter
        \/ square % 2 = 0 /\ \A i \in {0, 4, 8} : board[i] = letter
        \/ square % 2 = 0 /\ \A i \in {2, 4, 6} : board[i] = letter

\* The slices and all(...) tests of check_winner, for ROWS = COLS = 3.
check_winner(board, square, letter) ==
    LET row_index == square \div ROWS
        row_start == row_index * ROWS
        col_index == square % COLS
    IN  IF /\ board[row_start] = letter
           /\ board[row_start + 1] = letter
           /\ board[row_start + 2] = letter
        THEN TRUE
        ELSE IF /\ board[col_index] = letter
                /\ board[col_index + COLS] = letter
                /\ board[col_index + 2 * COLS] = letter
        THEN TRUE
        ELSE IF square % 2 = 0
        THEN IF board[0] = letter /\ board[4] = letter /\ board[8] = letter
             THEN TRUE
             ELSE IF board[2] = letter /\ board[4] = letter /\ board[6] = letter
             THEN TRUE
             ELSE FALSE
        ELSE FALSE

\* make_move that tests the range of the square but not that it is empty.
make_move_overwrites(game, square, letter) ==
    IF square \in Cells
    THEN [game |-> [board |-> [game.board EXCEPT ![square] = letter],
                    current_winner |-> game.current_winner],
          ret  |-> TRUE]
    ELSE [game |-> game, ret |-> FALSE]

\* make_move that accepts the move and writes no mark.
make_move_no_mark(game, square, letter) ==
    [game |-> game, ret |-> InList(square, available_moves(game))]

\* make_move that sets current_winner only while it is None.
make_move_first_winner(game, square, letter) ==
    IF InList(square, available_moves(game))
    THEN LET b == [game.board EXCEPT ![square] = letter]
         IN  [game |-> [board |-> b,
                        current_winner |-> IF /\ game.current_winner = NONE
                                              /\ check_winner(b, square, letter)
                                           THEN letter
                                           ELSE game.current_winner],
              ret  |-> TRUE]
    ELSE [game |-> game, ret |-> FALSE]

\* make_move returns the game after the call and the boolean it returns.
make_move(game, square, letter) ==
    IF InList(square, available_moves(game))
    THEN LET b == [game.board EXCEPT ![square] = letter]
         IN  [game |-> [board |-> b,
                        current_winner |-> IF check_winner(b, square, letter)
                                           THEN letter
                                           ELSE game.current_winner],
              ret  |-> TRUE]
    ELSE [game |-> game, ret |-> FALSE]

\* ------------------------------------------------------------------------
\* GeniusComputerPlayer.minimax.  self is [kind, letter, adversary].  The
\* result carries the game object as the call leaves it, next to the entries
\* of the returned dict.
\* ------------------------------------------------------------------------
\* "adversary = self.adversary if player == me else me"
Adversary(self, player) ==
    IF player = self.letter THEN self.adversary ELSE self.letter

\* A terminal score without the sign of the loss.
TerminalScoreUnsigned(self, game, adversary) ==
    1 * (num_empty_squares(game) + 1)

\* A terminal score that does not count the empty squares.
TerminalScoreFlat(self, game, adversary) ==
    IF adversary = self.letter THEN 1 ELSE -1

\* The score of the base case "game.current_winner == adversary".
TerminalScore(self, game, adversary) ==
    IF adversary = self.letter
    THEN 1 * (num_empty_squares(game) + 1)
    ELSE -1 * (num_empty_squares(game) + 1)

\* The two initial scores exchanged.
InitialBestSwapped(self, player) ==
    IF player = self.letter
    THEN [position |-> NoPosition, score |-> INF]
    ELSE [position |-> NoPosition, score |-> - INF]

\* The initial `best` of the loop.
InitialBest(self, player) ==
    IF player = self.letter
    THEN [position |-> NoPosition, score |-> - INF]
    ELSE [position |-> NoPosition, score |-> INF]

\* An undo that restores the cell and leaves current_winner as it is.
UndoKeepsWinner(game, possible_move) ==
    [board |-> [game.board EXCEPT ![possible_move] = EMPTY],
     current_winner |-> game.current_winner]

\* An undo that clears current_winner and leaves the mark on the board.
UndoLeavesMark(game, possible_move) ==
    [board |-> game.board, current_winner |-> NONE]

\* The undo of the simulated move.
Undo(game, possible_move) ==
    [board |-> [game.board EXCEPT ![possible_move] = EMPTY],
     current_winner |-> NONE]

\* A test under which an equal score replaces best too.
BetterOrEqual(self, player, sim_score, best) ==
    IF player = self.letter
    THEN sim_score.score >= best.score
    ELSE sim_score.score <= best.score

\* A test that maximizes at the opponent's turns too.
BetterAlwaysMax(self, player, sim_score, best) ==
    sim_score.score > best.score

\* The test under which sim_score replaces best.
Better(self, player, sim_score, best) ==
    IF player = self.letter
    THEN sim_score.score > best.score
    ELSE sim_score.score < best.score

RECURSIVE minimax(_, _, _), MinimaxLoop(_, _, _, _, _, _)

\* "for possible_move in game.available_moves()" from the k-th element of the
\* list `moves` on, with the running `best`.
MinimaxLoop(self, game, player, moves, k, best) ==
    IF k > Len(moves)
    THEN [position |-> best.position, score |-> best.score, game |-> game]
    ELSE LET possible_move == moves[k]
             sim           == minimax(self,
                                      make_move(game, possible_move, player).game,
                                      Adversary(self, player))
             sim_score     == [position |-> possible_move, score |-> sim.score]
         IN  IF Better(self, player, sim_score, best)
             THEN MinimaxLoop(self, Undo(sim.game, possible_move), player,
                              moves, k + 1, sim_score)
             ELSE MinimaxLoop(self, Undo(sim.game, possible_move), player,
                              moves, k + 1, best)

minimax(self, game, player) ==
    IF game.current_winner = Adversary(self, player)
    THEN [position |-> NoPosition,
          score    |-> TerminalScore(self, game, Adversary(self, player)),
          game     |-> game]
    ELSE LET moves == available_moves(game)
         IN  IF moves = << >>
             THEN [position |-> NoPosition, score |-> 0, game |-> game]
             ELSE MinimaxLoop(self, game, player, moves, 1,
                              InitialBest(self, player))

\* A choice that always takes the first element of the list.
RandomChoiceFirst(list) == { list[1] }

\* random.choice(list): any element of the list.
RandomChoice(list) == { list[k] : k \in 1 .. Len(list) }

\* get_move that starts the search with the adversary's letter to move.
GeniusGetMoveAsAdversary(self, game) ==
    IF num_empty_squares(game) = ROWS * COLS
    THEN { [square |-> s, game |-> game] : s \in RandomChoice(available_moves(game)) }
    ELSE { [square |-> r.position, game |-> r.game] :
               r \in { minimax(self, game, self.adversary) } }

\* GeniusComputerPlayer.get_move: the (square, game after the call) pairs
\* the call can produce.
GeniusGetMove(self, game) ==
    IF num_empty_squares(game) = ROWS * COLS
    THEN { [square |-> s, game |-> game] : s \in RandomChoice(available_moves(game)) }
    ELSE { [square |-> r.position, game |-> r.game] :
               r \in { minimax(self, game, self.letter) } }

\* A get_move that picks any cell of the board, taken or not.
RandomGetMoveAnyCell(game) ==
    { [square |-> s, game |-> game] : s \in Cells }

\* RandomComputerPlayer.get_move
RandomGetMove(game) ==
    { [square |-> s, game |-> game] : s \in RandomChoice(available_moves(game)) }

\* ------------------------------------------------------------------------
\* HumanPlayer.get_move.  A line read by input() is a sequence of characters;
\* the locals of the call are [square, move, valid_square, raised], with
\* move << >> for None and << n >> for the integer n.
\* ------------------------------------------------------------------------
Digits == << "0", "1", "2", "3", "4", "5", "6", "7", "8", "9" >>

IsDigit(c) == InList(c, Digits)

DigitValue(c) == (CHOOSE k \in 1 .. Len(Digits) : Digits[k] = c) - 1

\* str.strip() of the blanks at both ends, as int() does first.
RECURSIVE Strip(_)

Strip(s) ==
    IF s = << >> THEN s
    ELSE IF Head(s) = " " THEN Strip(Tail(s))
    ELSE IF s[Len(s)] = " " THEN Strip(SubSeq(s, 1, Len(s) - 1))
    ELSE s

\* The value of a string of decimal digits.
RECURSIVE Decimal(_)

Decimal(s) ==
    IF s = << >> THEN 0
    ELSE Decimal(SubSeq(s, 1, Len(s) - 1)) * 10 + DigitValue(s[Len(s)])

\* int(square) of a str: blanks stripped, an optional sign, then one or more
\* decimal digits and nothing else; ValueError otherwise.
int(s) ==
    LET t      == Strip(s)
        signed == t # << >> /\ Head(t) \in {"+", "-"}
        digits == IF signed THEN Tail(t) ELSE t
    IN  IF digits # << >> /\ \A k \in 1 .. Len(digits) : IsDigit(digits[k])
        THEN [error |-> NONE,
              value |-> IF signed /\ Head(t) = "-"
                        THEN - Decimal(digits)
                        ELSE Decimal(digits)]
        ELSE [error |-> "ValueError", value |-> 0]

\* A test of the range of the move only.
NotAvailableOffBoard(move, g) == move \notin Cells

\* "move not in game.available_moves()"
NotAvailable(move, g) == ~ InList(move, available_moves(g))

\* "except ValueError:"
ExceptValueError(error) == error = "ValueError"

\* The locals at the entry of get_move.
NoInput == [square |-> << >>, move |-> << >>, valid_square |-> FALSE, raised |-> NONE]

\* One pass of "while not valid_square" that reads the line s, from the
\* locals h: the try block, and the except clause with its re-prompt.
HumanInput(g, h, s) ==
    LET parsed == int(s)
        move   == IF parsed.error = NONE THEN << parsed.value >> ELSE h.move
        error  == IF parsed.error # NONE THEN parsed.error
                  ELSE IF NotAvailable(parsed.value, g) THEN "ValueError"
                  ELSE NONE
    IN  [square       |-> s,
         move         |-> move,
         valid_square |-> error = NONE,
         raised       |-> IF error = NONE \/ ExceptValueError(error)
                          THEN NONE
                          ELSE error]

\* The lines the human types.
Inputs ==
    { << Digits[k] >> : k \in 1 .. Len(Digits) }
        \cup { << "-", "1" >>, << "a" >>, << " ", "4" >> }

\* HumanPlayer.get_move, from its entry to its return: the (square, game
\* after the call, locals at the return) the call can end with.
HumanGetMove(g) ==
    { [square |-> h.move[1], game |-> g, locals |-> h] :
        h \in { k \in { HumanInput(g, NoInput, s) : s \in Inputs } : k.valid_square } }

\* ------------------------------------------------------------------------
\* binary_search(list, target).  The frame of a call is [list, target, first,
\* last, at, ret]: list is a sequence, so the Python list[i] is list[i + 1];
\* ret is << >> for None and << i >> for the index i.
\* ------------------------------------------------------------------------
\* The frame before any call.
NoSearch == [list |-> << >>, target |-> 0, first |-> 0, last |-> 0,
             at |-> "idle", ret |-> << >>]

\* "first = 0; last = len(list) - 1"
EnterBinarySearch(list, target) ==
    [list |-> list, target |-> target, first |-> 0, last |-> Len(list) - 1,
     at |-> "while", ret |-> << >>]

\* "midpoint = (first + last)//2"
Midpoint(first, last_) == (first + last_) \div 2

\* A step to the left that keeps the midpoint in the range.
LowerLastKeeps(midpoint) == midpoint

\* "last = midpoint - 1"
LowerLast(midpoint) == midpoint - 1

\* One pass of "while first <= last" from the frame f, or the "return None"
\* after the loop.
BinarySearchStep(f) ==
    IF f.first <= f.last
    THEN LET midpoint == Midpoint(f.first, f.last)
         IN  IF f.list[midpoint + 1] = f.target
             THEN [f EXCEPT !.at = "return", !.ret = << midpoint >>]
             ELSE IF f.list[midpoint + 1] < f.target
             THEN [f EXCEPT !.first = midpoint + 1]
             ELSE [f EXCEPT !.last = LowerLast(midpoint)]
    ELSE [f EXCEPT !.at = "return", !.ret = << >>]

\* The dict of minimax before any call.
NoBest == [position |-> NoPosition, score |-> 0, me |-> NONE, player |-> NONE]

\* ------------------------------------------------------------------------
\* MqttClient/main.py.  The record m holds the globals client and connected,
\* the state of the client's link to the broker (closed, open: the socket is
\* connected and CONNECT is sent, connected: the broker's CONNACK is in and
\* client.is_connected() is True), the position of the program (menu, auto:
\* inside send_messages_auto, exit), the choice the last step handled, the
\* calls on the client that step made with the return code of its publish(),
\* whether a client object was replaced while its link was not closed, and
\* whether the last disconnect() of option 3 has not been followed by
\* option 1.
\* ------------------------------------------------------------------------
NoMqtt == [client |-> NONE, connected |-> FALSE, link |-> "closed", at |-> "menu",
           choice |-> NONE, calls |-> << >>, rc |-> NONE, orphaned |-> FALSE,
           disconnected |-> FALSE]

\* client.is_connected()
is_connected(m) == m.link = "connected"

\* connect_broker(): the states it can leave.  The client is a new object:
\* one it replaces with its link not closed stays behind with its network
\* loop running.  connect() raises, or it returns and after the sleep of one
\* second the CONNACK is in, or is not yet, or the link is lost again.
connect_broker(m) ==
    IF m.connected
    THEN { m }
    ELSE LET n == [m EXCEPT !.client = "Client",
                            !.orphaned = m.orphaned \/ m.link # "closed"]
         IN  { [n EXCEPT !.link = "closed", !.connected = FALSE,
                         !.calls = << "connect" >>] }
             \cup
             { [n EXCEPT !.link = l, !.connected = (l = "connected"),
                         !.calls = << "connect", "loop_start", "is_connected" >>] :
                   l \in {"closed", "open", "connected"} }

\* The return codes of client.publish() the program tells apart.
ReturnCodes == {"MQTT_ERR_SUCCESS", "MQTT_ERR_NO_CONN"}

\* send_message() that takes a missing client for one that lost its link.
send_message_unguarded(m) ==
    { [m EXCEPT !.client = "Client", !.link = l, !.connected = FALSE, !.rc = rc,
                !.calls = << "is_connected", "reconnect", "publish" >>] :
          l \in {"open", "connected"}, rc \in ReturnCodes }

\* send_message(): the states it can leave.  reconnect() raises or returns;
\* publish() is called on the client and returns either code.
send_message(m) ==
    IF m.client = NONE
    THEN { m }
    ELSE IF is_connected(m)
    THEN { [m EXCEPT !.connected = TRUE, !.rc = rc,
                     !.calls = << "is_connected", "publish" >>] :
               rc \in ReturnCodes }
    ELSE { [m EXCEPT !.connected = FALSE, !.link = "closed",
                     !.calls = << "is_connected", "reconnect" >>] }
         \cup
         { [m EXCEPT !.connected = FALSE, !.link = l, !.rc = rc,
                     !.calls = << "is_connected", "reconnect", "publish" >>] :
               l \in {"open", "connected"}, rc \in ReturnCodes }

\* disconnect_broker()
disconnect_broker(m) ==
    IF ~ m.connected
    THEN m
    ELSE [m EXCEPT !.link = "closed", !.connected = FALSE,
                   !.calls = Append(m.calls, "disconnect")]

\* The lines the user types at "Select an option: ", stripped.
Choices == {"1", "2", "3", "4", "5", "6"}

\* One pass of the while loop of menu() on the choice.
Option(m, choice) ==
    CASE choice = "1" -> connect_broker(m)
      [] choice = "2" -> send_message(m)
      [] choice = "3" -> { disconnect_broker(m) }
      [] choice = "4" -> IF ~ m.connected THEN { m } ELSE { [m EXCEPT !.at = "auto"] }
      [] choice = "5" -> { [(IF m.connected THEN disconnect_broker(m) ELSE m)
                               EXCEPT !.at = "exit"] }
      [] OTHER -> { m }

\* The bookkeeping of a step: the choice handled, no call made yet, and
\* whether a disconnect() of option 3 is the last word of the user.
Begin(m, choice) ==
    [m EXCEPT !.choice = choice,
              !.calls = << >>,
              !.rc = NONE,
              !.disconnected = IF choice = "1" THEN FALSE
                               ELSE IF choice = "3" /\ m.connected THEN TRUE
                               ELSE m.disconnected]

\* ------------------------------------------------------------------------
\* selection_sort.py.  The frame holds the list object the caller passed
\* (array), the list as it was passed (input), new_array, and the loop
\* variable i of "for i in range(len(array))" with its bound n, taken once.
\* ------------------------------------------------------------------------
NoSort == [input |-> << >>, array |-> << >>, new_array |-> << >>, i |-> 0, n |-> 0,
           at |-> "idle"]

\* The loop of search_min_value from index i on.
RECURSIVE SearchMinLoop(_, _, _, _)

SearchMinLoop(array, i, min_value, min_indice) ==
    IF i >= Len(array) THEN min_indice
    ELSE IF array[i + 1] < min_value
    THEN SearchMinLoop(array, i + 1, array[i + 1], i)
    ELSE SearchMinLoop(array, i + 1, min_value, min_indice)

\* A search that always answers the index 0.
search_min_value_first(array) == 0

\* search_min_value(array): the index of the first smallest element.
search_min_value(array) == SearchMinLoop(array, 1, array[1], 0)

\* array.pop(indice): the list without the element at the index.
Pop(array, indice) ==
    SubSeq(array, 1, indice) \o SubSeq(array, indice + 2, Len(array))

\* "new_array = []" and the range of the for loop.
EnterSelectionSort(array) ==
    [input |-> array, array |-> array, new_array |-> << >>, i |-> 0,
     n |-> Len(array), at |-> "for"]

\* One pass of the for loop, or "return new_array" after it.
SelectionSortStep(f) ==
    IF f.i < f.n
    THEN LET indice == search_min_value(f.array)
         IN  [f EXCEPT !.new_array = Append(f.new_array, f.array[indice + 1]),
                       !.array = Pop(f.array, indice),
                       !.i = f.i + 1]
    ELSE [f EXCEPT !.at = "return"]

\* ------------------------------------------------------------------------
\* recursive_binary_search.py.  The recursion is a tail call: the frame
\* holds the arguments of the innermost call and, at the return, the value
\* every call of the chain returns.
\* ------------------------------------------------------------------------
NoRecursion == [list |-> << >>, target |-> 0, at |-> "idle", ret |-> FALSE]

EnterRecursiveBinarySearch(list, target) ==
    [list |-> list, target |-> target, at |-> "call", ret |-> FALSE]

\* A slice that drops one element more.
UpperSliceSkips(list, midpoint) == SubSeq(list, midpoint + 3, Len(list))

\* "list[midpoint+1:]"
UpperSlice(list, midpoint) == SubSeq(list, midpoint + 2, Len(list))

\* "list[:midpoint]"
LowerSlice(list, midpoint) == SubSeq(list, 1, midpoint)

\* One call of recursive_binary_search: a return value, or the next call.
RecursiveBinarySearchStep(f) ==
    IF Len(f.list) = 0
    THEN [f EXCEPT !.at = "return", !.ret = FALSE]
    ELSE LET midpoint == Len(f.list) \div 2
         IN  IF f.list[midpoint + 1] = f.target
             THEN [f EXCEPT !.at = "return", !.ret = TRUE]
             ELSE IF f.list[midpoint + 1] < f.target
             THEN [f EXCEPT !.list = UpperSlice(f.list, midpoint)]
             ELSE [f EXCEPT !.list = LowerSlice(f.list, midpoint)]

\* ------------------------------------------------------------------------
\* linear_search.py.  ret is << >> for None and << i >> for the index i.
\* ------------------------------------------------------------------------
NoLinear == [list |-> << >>, target |-> 0, i |-> 0, at |-> "idle", ret |-> << >>]

EnterLinearSearch(list, target) ==
    [list |-> list, target |-> target, i |-> 0, at |-> "for", ret |-> << >>]

\* A loop that notes the index of a match and goes on to the end.
LinearSearchStepKeepsOn(f) ==
    IF f.i < Len(f.list)
    THEN IF f.list[f.i + 1] = f.target
         THEN [f EXCEPT !.ret = << f.i >>, !.i = f.i + 1]
         ELSE [f EXCEPT !.i = f.i + 1]
    ELSE [f EXCEPT !.at = "return"]

\* One pass of "for i in range(0, len(list))", or "return None" after it.
LinearSearchStep(f) ==
    IF f.i < Len(f.list)
    THEN IF f.list[f.i + 1] = f.target
         THEN [f EXCEPT !.at = "return", !.ret = << f.i >>]
         ELSE [f EXCEPT !.i = f.i + 1]
    ELSE [f EXCEPT !.at = "return", !.ret = << >>]

\* ------------------------------------------------------------------------
\* lesson4.py: the position of the cat and the history of its moves.
\* ------------------------------------------------------------------------
WINDOW_WIDTH == 1280

WINDOW_HEIGHT == 720

LEFT_EDGE_MAX == 10

RIGHT_EDGE_MAX == WINDOW_WIDTH - 120

BOTTOM_EDGE_MAX == WINDOW_HEIGHT - 120

TOP_EDGE_MAX == 10

NoArcade == [catx |-> 0, caty |-> 0, movement_history |-> << >>, at |-> "idle"]

\* The globals when the main loop starts, the cat at (x, y).
EnterMainLoop(x, y) ==
    [catx |-> x, caty |-> y, movement_history |-> << >>, at |-> "loop"]

\* The keys the KEYDOWN branch tests, in the order of its if / elif chain: a
\* key stands for the first branch that is true.
MoveKeys == {"K_RIGHT", "K_DOWN", "K_LEFT", "K_UP"}

Keys == MoveKeys \cup {"K_u", "K_c"}

\* A test that lets the cat stand on the right edge.
BeyondRightEdge(x) == x > RIGHT_EDGE_MAX

\* "if catx >= RIGHT_EDGE_MAX"
AtRightEdge(x) == x >= RIGHT_EDGE_MAX

\* "if caty >= BOTTOM_EDGE_MAX"
AtBottomEdge(y) == y >= BOTTOM_EDGE_MAX

\* "if catx <= LEFT_EDGE_MAX"
AtLeftEdge(x) == x <= LEFT_EDGE_MAX

\* "if caty <= TOP_EDGE_MAX"
AtTopEdge(y) == y <= TOP_EDGE_MAX

\* The KEYDOWN branch of the main loop on the key.
KeyDown(a, key) ==
    LET saved == Append(a.movement_history, << a.catx, a.caty >>)
    IN  CASE key = "K_RIGHT" ->
               [a EXCEPT !.movement_history = saved,
                         !.catx = IF AtRightEdge(a.catx + 10)
                                  THEN (a.catx + 10) - 10 ELSE a.catx + 10]
          [] key = "K_DOWN" ->
               [a EXCEPT !.movement_history = saved,
                         !.caty = IF AtBottomEdge(a.caty + 10)
                                  THEN (a.caty + 10) - 10 ELSE a.caty + 10]
          [] key = "K_LEFT" ->
               [a EXCEPT !.movement_history = saved,
                         !.catx = IF AtLeftEdge(a.catx - 10)
                                  THEN (a.catx - 10) + 10 ELSE a.catx - 10]
          [] key = "K_UP" ->
               [a EXCEPT !.movement_history = saved,
                         !.caty = IF AtTopEdge(a.caty - 10)
                                  THEN (a.caty - 10) + 10 ELSE a.caty - 10]
          [] key = "K_u" ->
               IF a.movement_history # << >>
               THEN LET n == Len(a.movement_history)
                    IN  [a EXCEPT !.catx = a.movement_history[n][1],
                                  !.caty = a.movement_history[n][2],
                                  !.movement_history = SubSeq(a.movement_history, 1, n - 1)]
               ELSE a
          [] OTHER -> a

\* ------------------------------------------------------------------------
\* play(game, player_1, player_2), and the calls a caller of the board and
\* of the engine makes outside play().
\* ------------------------------------------------------------------------
VARIABLES
    game,      \* the TicTacToe object
    players,   \* <<player_1, player_2>>, each [kind, letter, adversary]
    letter,    \* play()'s local: the letter to move
    square,    \* play()'s local: the square the last get_move returned
    pc,        \* "loop": at the while test; "done": play() has returned
    result,    \* play()'s return value
    probe,     \* the game object at the last get_move's entry and return
    again,     \* the square a repeated get_move returned
    last,      \* the last make_move call: its square and return value
    human,     \* the locals of HumanPlayer.get_move, at the prompt or at its return
    best,      \* the dict the last call of minimax returned, and its arguments
    search,    \* the arguments, locals and return value of binary_search
    mqtt,      \* MqttClient/main.py: its globals, the broker link, the menu's position
    sorting,   \* selection_sort: the caller's list and the locals of the call
    recursion, \* recursive_binary_search: the arguments of the innermost call, the return value
    linear,    \* linear_search: its arguments, its loop index, its return value
    arcade     \* lesson4.py: catx, caty and movement_history

vars == << game, players, letter, square, pc, result, probe, again, last, human,
           best, search, mqtt, sorting, recursion, linear, arcade >>

Player(kind, l, adv) == [kind |-> kind, letter |-> l, adversary |-> adv]

NoCall == [square |-> NoPosition, ret |-> FALSE]

\* The locals and the game object at the entry of play().
Start(ps, at) ==
    /\ game = NewGame
    /\ players = ps
    /\ letter = ps[1].letter
    /\ square = NoPosition
    /\ pc = at
    /\ result = NONE
    /\ probe = [before |-> NewGame, after |-> NewGame]
    /\ again = NoPosition
    /\ last = NoCall
    /\ human = NoInput
    /\ best = NoBest
    /\ search = NoSearch
    /\ mqtt = NoMqtt
    /\ sorting = NoSort
    /\ recursion = NoRecursion
    /\ linear = NoLinear
    /\ arcade = NoArcade

\* tic-tac-toe/game.py: two RandomComputerPlayers, x first.
Init == Start(<< Player("random", "x", "o"), Player("random", "o", "x") >>, "loop")

\* tic-tac-toe-minimax/game.py: at least one GeniusComputerPlayer, x first.
InitGenius ==
    \E k1 \in {"random", "genius"}, k2 \in {"random", "genius"} :
        /\ "genius" \in {k1, k2}
        /\ Start(<< Player(k1, "x", "o"), Player(k2, "o", "x") >>, "loop")

\* "player_1 if letter == player_1.get_letter() else player_2"
CurrentPlayer(ps, l) == IF l = ps[1].letter THEN ps[1] ELSE ps[2]

\* current_player.get_move(game)
GetMove(p, g) ==
    IF p.kind = "genius" THEN GeniusGetMove(p, g)
    ELSE IF p.kind = "human" THEN HumanGetMove(g)
    ELSE RandomGetMove(g)

\* A winner test that is skipped once the board is full.
WonUnlessFull(g) == g.current_winner # NONE /\ empty_squares(g)

\* "if game.current_winner:"
Won(g) == g.current_winner # NONE

\* A switch that keeps the letter.
SwitchStays(ps, l) == l

\* The switch of players at the end of an iteration.
Switch(ps, l) == IF l = ps[1].letter THEN ps[2].letter ELSE ps[1].letter

\* One iteration of the while loop: get_move, make_move, the winner test
\* with its return, the switch of players.
Turn ==
    /\ pc = "loop"
    /\ empty_squares(game)
    /\ \E m \in GetMove(CurrentPlayer(players, letter), game) :
         LET mv == make_move(m.game, m.square, letter)
         IN  /\ square' = m.square
             /\ probe' = [before |-> game, after |-> m.game]
             /\ last' = [square |-> m.square, ret |-> mv.ret]
             /\ game' = mv.game
             /\ human' = IF CurrentPlayer(players, letter).kind = "human"
                         THEN m.locals
                         ELSE human
             /\ IF Won(mv.game)
                THEN /\ result' = letter
                     /\ pc' = "done"
                     /\ letter' = letter
                ELSE /\ letter' = Switch(players, letter)
                     /\ UNCHANGED << result, pc >>
    /\ UNCHANGED << players, again, best, search, mqtt, sorting, recursion, linear, arcade >>

\* The while test fails: "It's a tie!", return None.
Tie ==
    /\ pc = "loop"
    /\ ~ empty_squares(game)
    /\ pc' = "done"
    /\ result' = NONE
    /\ UNCHANGED << game, players, letter, square, probe, again, last, human, best, search, mqtt, sorting, recursion, linear, arcade >>

Next == Turn \/ Tie

Spec == Init /\ [][Next]_vars

\* Every get_move call returns and play() goes on running.
SpecLive == Spec /\ WF_vars(Next)

SpecGenius == InitGenius /\ [][Next]_vars

\* ------------------------------------------------------------------------
\* play() with a HumanPlayer as player_1 against a player who picks any legal
\* cell: the human is at the prompt of get_move while pc = "loop" and it is
\* the human's turn.
\* ------------------------------------------------------------------------
InitHuman == Start(<< Player("human", "x", "o"), Player("random", "o", "x") >>, "loop")

\* The human types a line that get_move does not accept: the except clause
\* prints and the loop prompts again; an exception the clause does not catch
\* leaves get_move and play().
Reprompt ==
    /\ pc = "loop"
    /\ empty_squares(game)
    /\ CurrentPlayer(players, letter).kind = "human"
    /\ \E s \in Inputs :
         LET h == HumanInput(game, IF human.valid_square THEN NoInput ELSE human, s)
         IN  /\ ~ h.valid_square
             /\ human' = h
             /\ pc' = IF h.raised = NONE THEN pc ELSE "raised"
    /\ UNCHANGED << game, players, letter, square, result, probe, again, last,
                    best, search, mqtt, sorting, recursion, linear, arcade >>

NextHuman == Turn \/ Tie \/ Reprompt

SpecHuman == InitHuman /\ [][NextHuman]_vars

\* play() with players of the three kinds: a HumanPlayer against a
\* GeniusComputerPlayer, the way the main program of tic-tac-toe-minimax
\* sets the game up, and two RandomComputerPlayers.
PlayerKinds == { << "human", "genius" >>, << "random", "random" >> }

InitPlayers ==
    \E k \in PlayerKinds :
        Start(<< Player(k[1], "x", "o"), Player(k[2], "o", "x") >>, "loop")

SpecPlayers == InitPlayers /\ [][NextHuman]_vars

\* ------------------------------------------------------------------------
\* A caller of the board alone: any sequence of make_move calls, with any
\* letter and any square, one beyond each end of the board included, while
\* the board holds fewer than MaxMarks marks.
\* ------------------------------------------------------------------------
MaxMarks == 6

InitBoard == Start(<< Player("random", "x", "o"), Player("random", "o", "x") >>, "board")

MakeMove ==
    /\ pc = "board"
    /\ TOTAL_CELLS - num_empty_squares(game) < MaxMarks
    /\ \E s \in -1 .. TOTAL_CELLS, l \in Letters :
         LET mv == make_move(game, s, l)
         IN  /\ game' = mv.game
             /\ last' = [square |-> s, ret |-> mv.ret]
    /\ UNCHANGED << players, letter, square, pc, result, probe, again, human, best, search, mqtt, sorting, recursion, linear, arcade >>

NextBoard == MakeMove

SpecBoard == InitBoard /\ [][NextBoard]_vars

\* ------------------------------------------------------------------------
\* A caller of the engine alone: a position is set up by legal moves in
\* turn, x first, up to a win or a full board; then the engine of the letter
\* to move is asked for its move, once (SpecSearch) or twice (SpecTwice).
\* ------------------------------------------------------------------------
\* The engine is asked on the empty board, where get_move does not search,
\* and on the boards with at most MaxEmpty empty cells: the cost of a search
\* grows with the factorial of their number.
MaxEmpty == 6

Asked(g) ==
    \/ num_empty_squares(g) = TOTAL_CELLS
    \/ num_empty_squares(g) <= MaxEmpty

InitSearch == Start(<< Player("genius", "x", "o"), Player("genius", "o", "x") >>, "setup")

Setup ==
    /\ pc = "setup"
    /\ ~ Won(game)
    /\ \E s \in RandomChoice(available_moves(game)) :
         game' = make_move(game, s, letter).game
    /\ letter' = Switch(players, letter)
    /\ UNCHANGED << players, square, pc, result, probe, again, last, human, best, search, mqtt, sorting, recursion, linear, arcade >>

Call ==
    /\ pc = "setup"
    /\ ~ Won(game)
    /\ empty_squares(game)
    /\ Asked(game)
    /\ \E m \in GeniusGetMove(CurrentPlayer(players, letter), game) :
         /\ square' = m.square
         /\ probe' = [before |-> game, after |-> m.game]
         /\ game' = m.game
    /\ pc' = "called"
    /\ UNCHANGED << players, letter, result, again, last, human, best, search, mqtt, sorting, recursion, linear, arcade >>

CallAgain ==
    /\ pc = "called"
    /\ \E m \in GeniusGetMove(CurrentPlayer(players, letter), game) :
         /\ again' = m.square
         /\ game' = m.game
    /\ pc' = "called2"
    /\ UNCHANGED << players, letter, square, result, probe, last, human, best, search, mqtt, sorting, recursion, linear, arcade >>

NextSearch == Setup \/ Call

SpecSearch == InitSearch /\ [][NextSearch]_vars

NextTwice == Setup \/ Call \/ CallAgain

SpecTwice == InitSearch /\ [][NextTwice]_vars

\* ------------------------------------------------------------------------
\* A caller of minimax alone: on a position set up as above, a won or full
\* board included, minimax is called for the letter to move, by the engine of
\* that letter as get_move calls it, or by the engine of the other letter as
\* the recursion calls it on a board with a simulated mark.  The empty board
\* is never searched: get_move answers it by random.choice.
\* ------------------------------------------------------------------------
Minimax ==
    /\ pc = "setup"
    /\ \E self \in {players[1], players[2]} :
         /\ num_empty_squares(game) <= MaxEmpty
         /\ \E r \in { minimax(self, game, letter) } :
              /\ best' = [position |-> r.position, score |-> r.score,
                          me |-> self.letter, player |-> letter]
              /\ probe' = [before |-> game, after |-> r.game]
              /\ game' = r.game
    /\ pc' = "searched"
    /\ UNCHANGED << players, letter, square, result, again, last, human, search,
                    mqtt, sorting, recursion, linear, arcade >>

NextMinimax == Setup \/ Minimax

SpecMinimax == InitSearch /\ [][NextMinimax]_vars

\* ------------------------------------------------------------------------
\* A caller of binary_search: one call on a list sorted in ascending order,
\* equal elements included, with a target inside or outside its values.
\* ------------------------------------------------------------------------
MaxLen == 4

MaxValue == 4

Values == 1 .. MaxValue

Targets == 0 .. (MaxValue + 1)

Lists == UNION { [1 .. n -> Values] : n \in 0 .. MaxLen }

Sorted(list) == \A i, j \in 1 .. Len(list) : i < j => list[i] <= list[j]

InitBinarySearch ==
    /\ game = NewGame
    /\ players = << Player("random", "x", "o"), Player("random", "o", "x") >>
    /\ letter = "x"
    /\ square = NoPosition
    /\ pc = "binary_search"
    /\ result = NONE
    /\ probe = [before |-> NewGame, after |-> NewGame]
    /\ again = NoPosition
    /\ last = NoCall
    /\ human = NoInput
    /\ best = NoBest
    /\ mqtt = NoMqtt
    /\ sorting = NoSort
    /\ recursion = NoRecursion
    /\ linear = NoLinear
    /\ arcade = NoArcade
    /\ \E list \in Lists, target \in Targets :
         /\ Sorted(list)
         /\ search = EnterBinarySearch(list, target)

\* One pass of the while loop, or the return after it.
Iterate ==
    /\ search.at = "while"
    /\ search' = BinarySearchStep(search)
    /\ UNCHANGED << game, players, letter, square, pc, result, probe, again, last,
                    human, best, mqtt, sorting, recursion, linear, arcade >>

NextBinarySearch == Iterate

\* The interpreter goes on running the call.
SpecBinarySearch ==
    InitBinarySearch /\ [][NextBinarySearch]_vars /\ WF_vars(NextBinarySearch)

\* ------------------------------------------------------------------------
\* The programs below do not use the board: the variables of play() rest at
\* their initial values while pc names the program that runs.
\* ------------------------------------------------------------------------
Parked(at) ==
    /\ game = NewGame
    /\ players = << Player("random", "x", "o"), Player("random", "o", "x") >>
    /\ letter = "x"
    /\ square = NoPosition
    /\ pc = at
    /\ result = NONE
    /\ probe = [before |-> NewGame, after |-> NewGame]
    /\ again = NoPosition
    /\ last = NoCall
    /\ human = NoInput
    /\ best = NoBest

\* ------------------------------------------------------------------------
\* MqttClient/main.py: menu() run from the module's initial globals, with a
\* broker and a network that can complete a connection or lose it at any
\* time.
\* ------------------------------------------------------------------------
InitMenu ==
    /\ Parked("menu")
    /\ search = NoSearch
    /\ mqtt = NoMqtt
    /\ sorting = NoSort
    /\ recursion = NoRecursion
    /\ linear = NoLinear
    /\ arcade = NoArcade

\* The user types a choice and menu() handles it.
Menu ==
    /\ pc = "menu"
    /\ mqtt.at = "menu"
    /\ \E choice \in Choices : mqtt' \in Option(Begin(mqtt, choice), choice)
    /\ UNCHANGED << game, players, letter, square, pc, result, probe, again, last,
                    human, best, search, sorting, recursion, linear, arcade >>

\* One pass of the loop of send_messages_auto().
AutoSend ==
    /\ pc = "menu"
    /\ mqtt.at = "auto"
    /\ mqtt' \in send_message(Begin(mqtt, "4"))
    /\ UNCHANGED << game, players, letter, square, pc, result, probe, again, last,
                    human, best, search, sorting, recursion, linear, arcade >>

\* Ctrl+C in send_messages_auto(): back to the menu.
Interrupt ==
    /\ pc = "menu"
    /\ mqtt.at = "auto"
    /\ mqtt' = [Begin(mqtt, "^C") EXCEPT !.at = "menu"]
    /\ UNCHANGED << game, players, letter, square, pc, result, probe, again, last,
                    human, best, search, sorting, recursion, linear, arcade >>

\* The network loses the link of the client.
Drop ==
    /\ pc = "menu"
    /\ mqtt.at # "exit"
    /\ mqtt.link # "closed"
    /\ mqtt' = [Begin(mqtt, NONE) EXCEPT !.link = "closed"]
    /\ UNCHANGED << game, players, letter, square, pc, result, probe, again, last,
                    human, best, search, sorting, recursion, linear, arcade >>

\* The broker's CONNACK reaches the client.
Ack ==
    /\ pc = "menu"
    /\ mqtt.at # "exit"
    /\ mqtt.link = "open"
    /\ mqtt' = [Begin(mqtt, NONE) EXCEPT !.link = "connected"]
    /\ UNCHANGED << game, players, letter, square, pc, result, probe, again, last,
                    human, best, search, sorting, recursion, linear, arcade >>

NextMenu == Menu \/ AutoSend \/ Interrupt \/ Drop \/ Ack

SpecMenu == InitMenu /\ [][NextMenu]_vars

\* ------------------------------------------------------------------------
\* A caller of selection_sort with any list of values.
\* ------------------------------------------------------------------------
InitSort ==
    /\ Parked("selection_sort")
    /\ search = NoSearch
    /\ mqtt = NoMqtt
    /\ recursion = NoRecursion
    /\ linear = NoLinear
    /\ arcade = NoArcade
    /\ \E list \in Lists : sorting = EnterSelectionSort(list)

SortPass ==
    /\ sorting.at = "for"
    /\ sorting' = SelectionSortStep(sorting)
    /\ UNCHANGED << game, players, letter, square, pc, result, probe, again, last,
                    human, best, search, mqtt, recursion, linear, arcade >>

NextSort == SortPass

SpecSort == InitSort /\ [][NextSort]_vars

\* ------------------------------------------------------------------------
\* A caller that passes one sorted list and one target to binary_search and
\* to recursive_binary_search; the interpreter goes on running both calls.
\* ------------------------------------------------------------------------
InitBothSearches ==
    /\ Parked("both_searches")
    /\ mqtt = NoMqtt
    /\ sorting = NoSort
    /\ linear = NoLinear
    /\ arcade = NoArcade
    /\ \E list \in Lists, target \in Targets :
         /\ Sorted(list)
         /\ search = EnterBinarySearch(list, target)
         /\ recursion = EnterRecursiveBinarySearch(list, target)

Recurse ==
    /\ recursion.at = "call"
    /\ recursion' = RecursiveBinarySearchStep(recursion)
    /\ UNCHANGED << game, players, letter, square, pc, result, probe, again, last,
                    human, best, search, mqtt, sorting, linear, arcade >>

NextBothSearches == Iterate \/ Recurse

SpecBothSearches ==
    /\ InitBothSearches
    /\ [][NextBothSearches]_vars
    /\ WF_vars(Iterate)
    /\ WF_vars(Recurse)

\* ------------------------------------------------------------------------
\* A caller of linear_search with any list of values, sorted or not.
\* ------------------------------------------------------------------------
InitLinearSearch ==
    /\ Parked("linear_search")
    /\ search = NoSearch
    /\ mqtt = NoMqtt
    /\ sorting = NoSort
    /\ recursion = NoRecursion
    /\ arcade = NoArcade
    /\ \E list \in Lists, target \in Targets : linear = EnterLinearSearch(list, target)

Scan ==
    /\ linear.at = "for"
    /\ linear' = LinearSearchStep(linear)
    /\ UNCHANGED << game, players, letter, square, pc, result, probe, again, last,
                    human, best, search, mqtt, sorting, recursion, arcade >>

NextLinearSearch == Scan

SpecLinearSearch == InitLinearSearch /\ [][NextLinearSearch]_vars

\* ------------------------------------------------------------------------
\* lesson4.py: the KEYDOWN events of the main loop.  random.randint places
\* the cat anywhere in its rectangle; the starts taken here are the two
\* corners of the rectangle, from which each of the four edges is 10 moves
\* away.  movement_history grows without bound: a move key is taken only
\* while the list is shorter than MaxHistory.
\* ------------------------------------------------------------------------
MaxHistory == 10

CatStarts ==
    { << LEFT_EDGE_MAX + 100, TOP_EDGE_MAX + 100 >>,
      << RIGHT_EDGE_MAX - 100, BOTTOM_EDGE_MAX - 100 >> }

InitArcade ==
    /\ Parked("arcade")
    /\ search = NoSearch
    /\ mqtt = NoMqtt
    /\ sorting = NoSort
    /\ recursion = NoRecursion
    /\ linear = NoLinear
    /\ \E start \in CatStarts : arcade = EnterMainLoop(start[1], start[2])

KeyDownEvent ==
    /\ arcade.at = "loop"
    /\ \E key \in Keys :
         /\ key \in MoveKeys => Len(arcade.movement_history) < MaxHistory
         /\ arcade' = KeyDown(arcade, key)
    /\ UNCHANGED << game, players, letter, square, pc, result, probe, again, last,
                    human, best, search, mqtt, sorting, recursion, linear >>

NextArcade == KeyDownEvent

SpecArcade == InitArcade /\ [][NextArcade]_vars

\* ------------------------------------------------------------------------
\* Notions the properties are stated with.
\* ------------------------------------------------------------------------
\* The 8 winning lines: 3 rows, 3 columns, 2 diagonals.
Lines == { {0, 1, 2}, {3, 4, 5}, {6, 7, 8},
           {0, 3, 6}, {1, 4, 7}, {2, 5, 8},
           {0, 4, 8}, {2, 4, 6} }

HasLine(board, m) == \E line \in Lines : \A i \in line : board[i] = m

Marks(board) == { i \in Cells : board[i] # EMPTY }

Full(board) == Marks(board) = Cells

\* The board written row by row.
BoardOf(cells) == [i \in Cells |-> cells[i + 1]]

\* The empty cells that complete a line of m.
WinCells(board, m) ==
    { c \in Cells : /\ board[c] = EMPTY
                    /\ \E line \in Lines : /\ c \in line
                                           /\ \A i \in line \ {c} : board[i] = m }

Lowest(S) == CHOOSE c \in S : \A d \in S : c <= d

\* board2 is board with exactly the empty cell c set to m.
Placed(board, board2, c, m) ==
    /\ board[c] = EMPTY
    /\ board2 = [board EXCEPT ![c] = m]

Kind(i) == players[i].kind

\* The letter to move on a board of alternating play with n marks.
Mover(board) == IF Cardinality(Marks(board)) % 2 = 0 THEN "x" ELSE "o"

Opponent(m) == IF m = "x" THEN "o" ELSE "x"

Max(S) == CHOOSE v \in S : \A w \in S : v >= w

Min(S) == CHOOSE v \in S : \A w \in S : v <= w

\* The boards with k marks that alternating play from x on can produce,
\* complete lines aside.
BoardsWith ==
    [k \in 0 .. TOTAL_CELLS |->
        { b \in [Cells -> {EMPTY, "x", "o"}] :
            /\ Cardinality({ c \in Cells : b[c] = "x" }) = (k + 1) \div 2
            /\ Cardinality({ c \in Cells : b[c] = "o" }) = k \div 2 }]

\* The minimax value of a board for the mark me, by backward induction on
\* the number of marks: a board with a line of me is worth +(empty cells + 1),
\* one with a line of the opponent -(empty cells + 1), a full board without a
\* line 0; elsewhere me takes the highest value of the boards one move on and
\* the opponent the lowest.
Reference[k \in 0 .. TOTAL_CELLS] ==
    [me \in Letters |->
        [b \in BoardsWith[k] |->
            IF HasLine(b, me) THEN TOTAL_CELLS - k + 1
            ELSE IF HasLine(b, Opponent(me)) THEN - (TOTAL_CELLS - k + 1)
            ELSE IF k = TOTAL_CELLS THEN 0
            ELSE LET after == { Reference[k + 1][me][[b EXCEPT ![c] = Mover(b)]] :
                                  c \in Cells \ Marks(b) }
                 IN  IF Mover(b) = me THEN Max(after) ELSE Min(after)]]

ReferenceValue(board, me) == Reference[Cardinality(Marks(board))][me][board]

\* ------------------------------------------------------------------------
\* C1: in a game between a GeniusComputerPlayer and a player who picks any
\* legal cell, play() never returns the letter of the Genius player's
\* opponent, whether the engine is player_1 or player_2.
\* ------------------------------------------------------------------------
C1_EngineNeverLoses ==
    \A i \in {1, 2} :
        (Kind(i) = "genius" /\ Kind(3 - i) # "genius")
            => result # players[3 - i].letter

\* x took the centre, the engine played o, and the game is over.
C1_Witness ==
    /\ pc = "done"
    /\ Kind(1) = "random" /\ Kind(2) = "genius"
    /\ game.board[4] = "x"
    /\ result \in {NONE, "o"}
    /\ Full(game.board)

\* ------------------------------------------------------------------------
\* C2: when both players are GeniusComputerPlayers, play() returns None
\* (a tie), never "x" or "o", whatever the random opening cell.
\* ------------------------------------------------------------------------
C2_SelfPlayDraw ==
    (Kind(1) = "genius" /\ Kind(2) = "genius")
        => /\ result = NONE
           /\ ~ Won(game)
           /\ pc = "done" => Full(game.board)

C2_Witness ==
    /\ Kind(1) = "genius" /\ Kind(2) = "genius"
    /\ pc = "done"
    /\ result = NONE
    /\ Full(game.board)

\* ------------------------------------------------------------------------
\* C3: on a board with an empty cell and no winner, get_move of the engine
\* returns an index of 0..8 that is in available_moves(): never an occupied
\* cell, never None.
\* ------------------------------------------------------------------------
C3_MoveIsLegal ==
    pc = "called"
        => /\ square # NoPosition
           /\ square \in Cells
           /\ InList(square, available_moves(probe.before))

\* The search has answered on a board with marks on it.
C3_Witness ==
    /\ pc = "called"
    /\ Cardinality(Marks(probe.before.board)) = 3
    /\ square \in Cells

\* ------------------------------------------------------------------------
\* C4: the search leaves the board untouched: when get_move returns in
\* play(), the 9 cells and current_winner are what they were at its entry.
\* ------------------------------------------------------------------------
C4_SearchLeavesBoard ==
    /\ probe.after.board = probe.before.board
    /\ probe.after.current_winner = probe.before.current_winner

\* The engine has just searched a board with marks on it and moved.
C4_Witness ==
    /\ Kind(2) = "genius"
    /\ letter = "x"
    /\ last.ret
    /\ Cardinality(Marks(probe.before.board)) = 3
    /\ probe.after = probe.before

\* ------------------------------------------------------------------------
\* C5, as claimed: on any board, two calls of get_move on the same board
\* return the same move.
\* ------------------------------------------------------------------------
C5_AnyBoardSameMove == pc = "called2" => again = square

\* C5, amended: on any board with at least one mark, two calls of get_move
\* one after the other on the same board return the same move.
C5_MarkedBoardSameMove ==
    (pc = "called2" /\ Marks(probe.before.board) # {}) => again = square

C5_Witness ==
    /\ pc = "called2"
    /\ Cardinality(Marks(probe.before.board)) = 3
    /\ again = square
    /\ square \in Cells

\* ------------------------------------------------------------------------
\* C6: on a non-empty board with no winner where the engine is to move and
\* some empty cell completes a line of its mark, get_move returns the
\* lowest-indexed such cell; on [x,x,_, o,o,_, _,_,_] the x engine returns 2.
\* ------------------------------------------------------------------------
BoardC6 == BoardOf(<< "x", "x", " ",  "o", "o", " ",  " ", " ", " " >>)

C6_ImmediateWinTaken ==
    /\ (/\ pc = "called"
        /\ Marks(probe.before.board) # {}
        /\ WinCells(probe.before.board, letter) # {})
            => square = Lowest(WinCells(probe.before.board, letter))
    /\ (pc = "called" /\ probe.before.board = BoardC6 /\ letter = "x")
            => square = 2

C6_Witness ==
    /\ pc = "called"
    /\ probe.before.board = BoardC6
    /\ letter = "x"
    /\ square = 2

\* ------------------------------------------------------------------------
\* C7: on [o,o,_, x,x,_, _,_,_] with x to move, the x engine returns 5.
\* ------------------------------------------------------------------------
BoardC7 == BoardOf(<< "o", "o", " ",  "x", "x", " ",  " ", " ", " " >>)

C7_ReturnsFive ==
    (pc = "called" /\ probe.before.board = BoardC7 /\ letter = "x")
        => square = 5

C7_Witness ==
    /\ pc = "called"
    /\ probe.before.board = BoardC7
    /\ letter = "x"
    /\ players[1].adversary = "o"
    /\ square = 5

\* ------------------------------------------------------------------------
\* C8: on every board available_moves() is exactly the indices of the empty
\* cells, in ascending order; make_move on a square that is not empty, or
\* not an index of 0..8, returns False and leaves the cells and
\* current_winner unchanged.
\* ------------------------------------------------------------------------
AvailableExact ==
    LET a == available_moves(game)
    IN  /\ \A k \in 1 .. Len(a) : a[k] \in Cells /\ game.board[a[k]] = EMPTY
        /\ \A c \in Cells : game.board[c] = EMPTY => InList(c, a)
        /\ \A j, k \in 1 .. Len(a) : j < k => a[j] < a[k]

RejectedUnchanged ==
    (last'.square \notin Cells \/ game.board[last'.square] # EMPTY)
        => /\ last'.ret = FALSE
           /\ game'.board = game.board
           /\ game'.current_winner = game.current_winner

C8_LegalMovesAndRejection == [] AvailableExact /\ [][RejectedUnchanged]_vars

\* Rejections of an occupied square and of a square off the board happened.
C8_Witness ==
    /\ pc = "board"
    /\ last.ret = FALSE
    /\ last.square \in Cells
    /\ game.board[last.square] # EMPTY
    /\ Len(available_moves(game)) = 4

\* ------------------------------------------------------------------------
\* C9: in every state of play() current_winner is the mark m exactly when
\* one of the 8 lines is entirely m, and None otherwise.
\* ------------------------------------------------------------------------
C9_WinnerIffLine ==
    /\ game.current_winner \in Letters \cup {NONE}
    /\ \A m \in Letters : game.current_winner = m <=> HasLine(game.board, m)

\* A win on the diagonal 2, 4, 6.
C9_Witness ==
    /\ game.current_winner = "o"
    /\ \A i \in {2, 4, 6} : game.board[i] = "o"
    /\ \A line \in Lines \ {{2, 4, 6}} : \E i \in line : game.board[i] # "o"

\* ------------------------------------------------------------------------
\* C10: play() returns the letter of the player whose move has just
\* completed a line, at once; it returns None exactly when the board is full
\* with no complete line; a line completed by the 9th move is a win; after
\* the return nothing moves.
\* ------------------------------------------------------------------------
DriverStep ==
    /\ pc = "loop"
    /\ \E c \in Cells :
         \/ /\ Placed(game.board, game'.board, c, letter)
            /\ HasLine(game'.board, letter)
            /\ pc' = "done"
            /\ result' = letter
         \/ /\ Placed(game.board, game'.board, c, letter)
            /\ ~ HasLine(game'.board, "x")
            /\ ~ HasLine(game'.board, "o")
            /\ pc' = "loop"
            /\ result' = NONE
         \/ /\ game' = game
            /\ Full(game.board)
            /\ ~ HasLine(game.board, "x")
            /\ ~ HasLine(game.board, "o")
            /\ pc' = "done"
            /\ result' = NONE

C10_DriverOutcome ==
    /\ [] (pc = "loop" => ENABLED Next)
    /\ [][DriverStep]_vars

\* The 9th move completed a line: a win, not a tie.
C10_Witness ==
    /\ pc = "done"
    /\ result = "x"
    /\ Full(game.board)

\* ------------------------------------------------------------------------
\* C11: HumanPlayer.get_move returns only a value that parsed as an integer
\* and is in available_moves() at that time; a line that is no integer, is
\* off the board or names an occupied cell is rejected with a re-prompt,
\* changes nothing on the board, and never reaches play() as an error.
\* ------------------------------------------------------------------------
\* The integer a line of Inputs denotes, << >> if it denotes none.
Denoted(s) ==
    IF Len(s) = 1 /\ IsDigit(s[1]) THEN << DigitValue(s[1]) >>
    ELSE IF s = << "-", "1" >> THEN << -1 >>
    ELSE IF s = << " ", "4" >> THEN << 4 >>
    ELSE << >>

\* The line denotes an integer that is the index of an empty cell.
ValidLine(s, board) ==
    /\ Denoted(s) # << >>
    /\ Denoted(s)[1] \in Cells
    /\ board[Denoted(s)[1]] = EMPTY

HumanStep ==
    (pc = "loop" /\ CurrentPlayer(players, letter).kind = "human")
        => IF ValidLine(human'.square, game.board)
           THEN /\ square' = Denoted(human'.square)[1]
                /\ InList(square', available_moves(game))
                /\ last' = [square |-> square', ret |-> TRUE]
                /\ Placed(game.board, game'.board, square', letter)
           ELSE /\ ~ human'.valid_square
                /\ pc' = "loop"
                /\ UNCHANGED << game, letter, square, result, last >>

C11_HumanInputValidated == [] (pc # "raised") /\ [][HumanStep]_vars

\* The human has named the occupied centre and is prompted again.
C11_Witness ==
    /\ pc = "loop"
    /\ CurrentPlayer(players, letter).kind = "human"
    /\ human.square = << "4" >>
    /\ human.move = << 4 >>
    /\ ~ human.valid_square
    /\ game.board[4] = "o"

\* ------------------------------------------------------------------------
\* C12: in play() the board starts with 9 empty cells and no winner; every
\* cell always holds ' ', 'x' or 'o'; each accepted make_move changes exactly
\* one cell from empty to the mover's mark and leaves the other 8 alone; a
\* cell that is not empty never changes again.
\* ------------------------------------------------------------------------
CreatedEmpty ==
    /\ \A c \in Cells : game.board[c] = EMPTY
    /\ game.current_winner = NONE

CellsTyped ==
    /\ DOMAIN game.board = Cells
    /\ \A c \in Cells : game.board[c] \in {EMPTY, "x", "o"}

CellStep ==
    /\ \A c \in Cells : game.board[c] # EMPTY => game'.board[c] = game.board[c]
    /\ (pc = "loop" /\ ~ Full(game.board))
            => /\ last'.ret
               /\ \E c \in Cells : /\ last'.square = c
                                   /\ Placed(game.board, game'.board, c, letter)
                                   /\ \A d \in Cells \ {c} :
                                          game'.board[d] = game.board[d]

C12_CellsWrittenOnce == CreatedEmpty /\ [] CellsTyped /\ [][CellStep]_vars

\* The engine, as o, has searched and written the sixth mark.
C12_Witness ==
    /\ Kind(1) = "random" /\ Kind(2) = "genius"
    /\ Cardinality(Marks(game.board)) = 6
    /\ last.ret
    /\ game.board[last.square] = "o"
    /\ Cardinality(Marks(probe.before.board)) = 5

\* ------------------------------------------------------------------------
\* C13: binary_search on a list sorted in ascending order terminates; it
\* returns an index i with list[i] == target whenever the target occurs in
\* the list, and None exactly when it does not occur (the empty list
\* included).
\* ------------------------------------------------------------------------
Occurs(list, target) == \E i \in 1 .. Len(list) : list[i] = target

Returned == search.at = "return"

ReturnCorrect ==
    Returned =>
        IF Occurs(search.list, search.target)
        THEN /\ search.ret # << >>
             /\ search.ret[1] \in 0 .. (Len(search.list) - 1)
             /\ search.list[search.ret[1] + 1] = search.target
        ELSE search.ret = << >>

C13_BinarySearchFinds == <> Returned /\ [] ReturnCorrect

\* The target occurs twice and one of its indices is returned.
C13_Witness ==
    /\ Returned
    /\ search.list = << 1, 2, 2, 3 >>
    /\ search.target = 2
    /\ search.ret = << 1 >>

\* ------------------------------------------------------------------------
\* C14: turns alternate from the first player on: the marks are placed in
\* the order x, o, x, o, ..., the count of first-player marks minus the count
\* of second-player marks is 0 or 1, and no player moves twice in a row.
\* ------------------------------------------------------------------------
Count(board, m) == Cardinality({ c \in Cells : board[c] = m })

InTurn(n) == IF n % 2 = 0 THEN players[1].letter ELSE players[2].letter

CountsBalanced ==
    Count(game.board, players[1].letter) - Count(game.board, players[2].letter)
        \in {0, 1}

AlternateStep ==
    /\ \A c \in Cells, m \in Letters :
           Placed(game.board, game'.board, c, m)
               => m = InTurn(Cardinality(Marks(game.board)))
    /\ (game'.board # game.board /\ pc' = "loop") => letter' # letter

C14_TurnsAlternate == [] CountsBalanced /\ [][AlternateStep]_vars

\* A full board without a winner: five marks of x, four of o.
C14_Witness ==
    /\ Full(game.board)
    /\ Count(game.board, "x") = 5
    /\ Count(game.board, "o") = 4
    /\ result = NONE
    /\ pc = "done"

\* ------------------------------------------------------------------------
\* C15: play() terminates, provided every get_move call returns: the loop
\* ends with a winner or a tie after at most 9 applied moves, and never
\* before the 5th move.
\* ------------------------------------------------------------------------
Ended == pc = "done"

AppliedMoves == Cardinality(Marks(game.board))

C15_PlayTerminates ==
    /\ <> Ended
    /\ [] (Ended => (AppliedMoves >= 5 /\ AppliedMoves <= 9))
    /\ [] (Ended => (result \in Letters \/ (result = NONE /\ Full(game.board))))

\* The shortest game: x wins with its third mark.
C15_Witness ==
    /\ Ended
    /\ AppliedMoves = 5
    /\ result = "x"
    /\ \A c \in {2, 4, 6} : game.board[c] = "x"

\* ------------------------------------------------------------------------
\* C16: on every reachable board without a winner and with an empty cell,
\* the score minimax(game, me) returns is the reference minimax value of the
\* position for me: +(empty cells + 1) at a board won by me, -(empty cells +
\* 1) at a board won by the opponent, 0 at a full board without a winner, me
\* maximizing and the opponent minimizing.
\* ------------------------------------------------------------------------
Searched == pc = "searched"

NonTerminal(g) == g.current_winner = NONE /\ ~ Full(g.board)

C16_ScoreIsMinimaxValue ==
    (Searched /\ best.me = best.player /\ NonTerminal(probe.before))
        => best.score = ReferenceValue(probe.before.board, best.me)

\* x, to move with a win in two moves at hand, is given its value.
C16_Witness ==
    /\ Searched
    /\ best.me = "x" /\ best.player = "x"
    /\ NonTerminal(probe.before)
    /\ Cardinality(Marks(probe.before.board)) = 4
    /\ WinCells(probe.before.board, "x") = {}
    /\ best.score = 3

\* ------------------------------------------------------------------------
\* C17: ties keep the first candidate found: at a maximizing node minimax
\* returns the lowest-indexed empty cell among those with the highest score,
\* at a minimizing node the lowest-indexed empty cell among those with the
\* lowest score.
\* ------------------------------------------------------------------------
\* The score of the candidate c: the value for me of the board with c taken
\* by the letter to move.
CandidateScore(board, c, me) ==
    ReferenceValue([board EXCEPT ![c] = Mover(board)], me)

\* The empty cells whose score is the highest (me to move) or the lowest
\* (the opponent to move) of all candidates.
BestCells(board, me) ==
    LET scores == { CandidateScore(board, c, me) : c \in Cells \ Marks(board) }
        wanted == IF Mover(board) = me THEN Max(scores) ELSE Min(scores)
    IN  { c \in Cells \ Marks(board) : CandidateScore(board, c, me) = wanted }

C17_FirstFoundKept ==
    (Searched /\ NonTerminal(probe.before))
        => /\ best.player = Mover(probe.before.board)
           /\ best.position = Lowest(BestCells(probe.before.board, best.me))

\* A minimizing node with three candidates of the lowest score, the first of
\* them returned.
C17_Witness ==
    /\ Searched
    /\ NonTerminal(probe.before)
    /\ best.me = "x" /\ best.player = "o"
    /\ Cardinality(Marks(probe.before.board)) = 3
    /\ Cardinality(BestCells(probe.before.board, "x")) = 3
    /\ best.position = Lowest(BestCells(probe.before.board, "x"))
    /\ best.position # Lowest(Cells \ Marks(probe.before.board))

\* ------------------------------------------------------------------------
\* C18, as claimed: every recursive call of minimax returns with the cells
\* as they were at its entry and current_winner None, on every exit path,
\* the early return at a terminal board included.
\* ------------------------------------------------------------------------
\* A call the recursion makes: on a board that holds a simulated mark.
RecursiveCall == Searched /\ Marks(probe.before.board) # {}

C18_CallReturnsWinnerNone ==
    RecursiveCall
        => /\ probe.after.board = probe.before.board
           /\ probe.after.current_winner = NONE

\* C18, amended: every recursive call of minimax returns with the cells and
\* current_winner as they were at its entry: current_winner is None, except
\* at the early return on a won board, where it still names the winner; the
\* caller's undo of the simulated mark then leaves the caller's position
\* with current_winner None, so no mark of a candidate tried earlier is left
\* when the next one is tried.
CallRestores ==
    /\ probe.after.board = probe.before.board
    /\ probe.after.current_winner = probe.before.current_winner
    /\ probe.after.current_winner # NONE
           <=> HasLine(probe.before.board, Opponent(best.player))

\* The caller's undo of the cell c, which the call's board holds as the last
\* mark placed, gives the board without that mark and no winner.
UndoneAfterCall ==
    \A c \in Cells :
        probe.before.board[c] = Opponent(best.player)
            => Undo(probe.after, c)
                   = [board |-> [probe.before.board EXCEPT ![c] = EMPTY],
                      current_winner |-> NONE]

C18_CallRestoresEntryState == RecursiveCall => (CallRestores /\ UndoneAfterCall)

\* The early return: a call on a board x has won returns it with x as winner.
C18_Witness ==
    /\ RecursiveCall
    /\ probe.before.current_winner = "x"
    /\ probe.after = probe.before
    /\ best.position = NoPosition
    /\ best.me = "o"
    /\ best.score = -5

\* ------------------------------------------------------------------------
\* C19, as claimed: on every reachable board without a winner where the
\* engine is to move, no empty cell completes a line of its mark and some
\* empty cell completes a line of the opponent's mark, get_move returns a
\* cell that completes a line of the opponent.
\* ------------------------------------------------------------------------
Threatened(board, me) ==
    /\ WinCells(board, me) = {}
    /\ WinCells(board, Opponent(me)) # {}

C19_AnyThreatBlocked ==
    (pc = "called" /\ Threatened(probe.before.board, letter))
        => square \in WinCells(probe.before.board, Opponent(letter))

\* C19, amended: on such a board, when exactly one empty cell completes a
\* line of the opponent's mark, get_move returns that cell; when two or more
\* do, every move loses with the same score and get_move returns the
\* lowest-indexed empty cell, whether it closes a line or not.
C19_SingleThreatBlocked ==
    (pc = "called" /\ Threatened(probe.before.board, letter))
        => IF Cardinality(WinCells(probe.before.board, Opponent(letter))) = 1
           THEN {square} = WinCells(probe.before.board, Opponent(letter))
           ELSE square = Lowest(Cells \ Marks(probe.before.board))

\* The engine, as o, closes the only line x is about to complete.
C19_Witness ==
    /\ pc = "called"
    /\ letter = "o"
    /\ Threatened(probe.before.board, "o")
    /\ WinCells(probe.before.board, "x") = {square}
    /\ square # Lowest(Cells \ Marks(probe.before.board))
    /\ Cardinality(Marks(probe.before.board)) = 3

\* ------------------------------------------------------------------------
\* C20: for every content of the 9 cells, every empty cell c and every mark
\* m, make_move(c, m) sets current_winner to m exactly when, after the
\* placement, some winning line that contains c (its row, its column, or a
\* diagonal it lies on) is entirely m; otherwise current_winner stays.
\* ------------------------------------------------------------------------
LineThrough(board, c, m) ==
    \E line \in Lines : c \in line /\ \A i \in line : board[i] = m

WinnerStep ==
    \A c \in Cells, m \in Letters :
        Placed(game.board, game'.board, c, m)
            => game'.current_winner = IF LineThrough(game'.board, c, m)
                                      THEN m
                                      ELSE game.current_winner

AllEmpty(board) == Marks(board) = {}

C21_OpeningShortcut ==
    /\ (pc = "setup" /\ AllEmpty(game.board))
           => \A c \in Cells : ENABLED (Call /\ square' = c)
    /\ (pc = "called" /\ AllEmpty(probe.before.board))
           => /\ square \in Cells
              /\ InList(square, available_moves(probe.before))
              /\ probe.after = probe.before
    /\ (pc = "called" /\ ~ AllEmpty(probe.before.board))
           => square = Lowest(BestCells(probe.before.board, letter))

\* The opening call has returned the cell 7, which minimax never returns on
\* the empty board.
C21_Witness ==
    /\ pc = "called"
    /\ AllEmpty(probe.before.board)
    /\ square = 7
    /\ Lowest(BestCells(probe.before.board, letter)) # 7

\* ------------------------------------------------------------------------
\* C22: play() never applies a rejected move.  With players of any kind,
\* get_move is requested only on a board with an empty cell and no winner;
\* the square it returns is in available_moves(), so make_move returns True
\* and places the mark of the player in turn on that square: the turn never
\* passes without a mark placed.
\* ------------------------------------------------------------------------
\* A step of play() that calls make_move or hands the turn over.
Applies == last' # last \/ letter' # letter \/ game' # game \/ square' # square

TurnApplied ==
    (pc = "loop" /\ Applies)
        => /\ ~ Full(game.board)
           /\ game.current_winner = NONE
           /\ InList(square', available_moves(game))
           /\ last' = [square |-> square', ret |-> TRUE]
           /\ Placed(game.board, game'.board, square', letter)

C22_NoRejectedMoveApplied ==
    /\ [] (pc = "loop" => game.current_winner = NONE)
    /\ [][TurnApplied]_vars

\* A human x against the engine o: three turns have passed, each with its
\* mark placed, the last one an x that make_move accepted.
C22_Witness ==
    /\ pc = "loop"
    /\ players[1].kind = "human"
    /\ players[2].kind = "genius"
    /\ Cardinality(Marks(game.board)) = 3
    /\ last.ret
    /\ game.board[last.square] = "x"

\* ------------------------------------------------------------------------
\* C23: in every sequence of make_move calls from the empty board, with no
\* driver to stop at the first win, once current_winner is set to a mark no
\* later make_move changes it to a different value.  (As stated: refuted by
\* a later call that completes a line of the other mark.)
\* ------------------------------------------------------------------------
WinnerStable ==
    game.current_winner # NONE => game'.current_winner = game.current_winner

C23_WinnerNeverChanges == [][WinnerStable]_vars

\* C23, amended: once current_winner is set to a mark no later make_move
\* resets it to None, and a later make_move changes it exactly when it
\* completes a line of the other mark through the cell it fills: the flag
\* holds the mark of the last winning move.
WinnerOfLastLine ==
    game.current_winner # NONE
        => /\ game'.current_winner \in Letters
           /\ game'.current_winner # game.current_winner
                  <=> \E c \in Cells, m \in Letters \ {game.current_winner} :
                          /\ Placed(game.board, game'.board, c, m)
                          /\ LineThrough(game'.board, c, m)

C23_WinnerOfLastWinningMove == [][WinnerOfLastLine]_vars

\* x holds the row 0, 1, 2 and o has just completed the row 3, 4, 5: the
\* flag, x before the call, is o.
C23_Witness ==
    /\ pc = "board"
    /\ \A i \in {0, 1, 2} : game.board[i] = "x"
    /\ \A i \in {3, 4, 5} : game.board[i] = "o"
    /\ last.ret
    /\ last.square \in {3, 4, 5}
    /\ game.current_winner = "o"

\* ------------------------------------------------------------------------
\* C24: send_message() with no client ever created publishes nothing and
\* leaves client and connected (and the link) as they were; option 4 of the
\* menu while connected is False sends nothing and stays in the menu.
\* ------------------------------------------------------------------------
SendWithoutClient ==
    (mqtt.client = NONE /\ mqtt' # mqtt /\ mqtt'.choice = "2")
        => /\ mqtt'.calls = << >>
           /\ mqtt'.rc = NONE
           /\ mqtt'.client = NONE
           /\ mqtt'.connected = mqtt.connected
           /\ mqtt'.link = mqtt.link

AutoRefused ==
    (mqtt.at = "menu" /\ ~ mqtt.connected /\ mqtt' # mqtt /\ mqtt'.choice = "4")
        => /\ mqtt'.calls = << >>
           /\ mqtt'.rc = NONE
           /\ mqtt'.at = "menu"

C24_NothingSentUnconnected == [][SendWithoutClient /\ AutoRefused]_vars

\* Option 2 has been handled before any client was created.
C24_Witness ==
    /\ pc = "menu"
    /\ mqtt.choice = "2"
    /\ mqtt.client = NONE
    /\ ~ mqtt.connected
    /\ mqtt.calls = << >>

\* ------------------------------------------------------------------------
\* C25: after the user disconnects with disconnect_broker (option 3), no
\* message is published until the user chooses option 1 again, whatever the
\* menu choices are.  (Refuted: option 2 reconnects the client and
\* publishes.)
\* ------------------------------------------------------------------------
Publishes == InList("publish", mqtt'.calls)

SilentAfterDisconnect ==
    (mqtt.disconnected /\ mqtt' # mqtt /\ mqtt'.choice # "1") => ~ Publishes

C25_NoPublishAfterDisconnect == [][SilentAfterDisconnect]_vars

\* ------------------------------------------------------------------------
\* C26: quitting (option 5) never leaves a live broker connection behind:
\* if the client is connected to the broker when 5 is chosen,
\* disconnect_broker is called before the exit.  (Refuted: after a
\* reconnect in send_message the flag connected stays False, and option 5
\* tests the flag.)
\* ------------------------------------------------------------------------
QuitDisconnects ==
    (mqtt.at = "menu" /\ mqtt'.at = "exit" /\ is_connected(mqtt))
        => /\ InList("disconnect", mqtt'.calls)
           /\ mqtt'.link = "closed"

C26_QuitClosesConnection == [][QuitDisconnects]_vars

\* ------------------------------------------------------------------------
\* C27: selection_sort returns a list that is a permutation of its input in
\* ascending order, the list the caller passed is empty at the return, and
\* the empty list gives the empty list.
\* ------------------------------------------------------------------------
Times(list, v) == Cardinality({ k \in 1 .. Len(list) : list[k] = v })

Permutation(list, list2) ==
    /\ Len(list) = Len(list2)
    /\ \A v \in Values : Times(list, v) = Times(list2, v)

C27_SelectionSortSorts ==
    sorting.at = "return"
        => /\ Sorted(sorting.new_array)
           /\ Permutation(sorting.new_array, sorting.input)
           /\ sorting.array = << >>
           /\ (sorting.input = << >> => sorting.new_array = << >>)

\* An unsorted list with a repeated value has been sorted.
C27_Witness ==
    /\ sorting.at = "return"
    /\ sorting.input = << 3, 1, 3, 2 >>
    /\ sorting.new_array = << 1, 2, 3, 3 >>
    /\ sorting.array = << >>

\* ------------------------------------------------------------------------
\* C28: on the same sorted list and target both searches terminate, and
\* recursive_binary_search returns True exactly when binary_search returns
\* an index, False exactly when binary_search returns None.
\* ------------------------------------------------------------------------
BothReturned == search.at = "return" /\ recursion.at = "return"

SearchesAgree == BothReturned => (recursion.ret <=> search.ret # << >>)

C28_SearchesAgree == <> BothReturned /\ [] SearchesAgree

\* The target is the last element of a list of four: found by both.
C28_Witness ==
    /\ BothReturned
    /\ search.list = << 1, 2, 3, 4 >>
    /\ search.target = 4
    /\ search.ret = << 3 >>
    /\ recursion.ret

\* ------------------------------------------------------------------------
\* C29: linear_search returns the smallest index i with list[i] == target
\* when the target occurs in the list, sorted or not, and None exactly when
\* it does not occur.
\* ------------------------------------------------------------------------
FirstIndex(list, target) ==
    CHOOSE i \in 0 .. (Len(list) - 1) :
        /\ list[i + 1] = target
        /\ \A j \in 0 .. (i - 1) : list[j + 1] # target

C29_LinearSearchFirstIndex ==
    linear.at = "return"
        => linear.ret = IF Occurs(linear.list, linear.target)
                        THEN << FirstIndex(linear.list, linear.target) >>
                        ELSE << >>

\* The target occurs twice in an unsorted list: the first index is returned.
C29_Witness ==
    /\ linear.at = "return"
    /\ linear.list = << 3, 2, 1, 2 >>
    /\ linear.target = 2
    /\ linear.ret = << 1 >>

\* ------------------------------------------------------------------------
\* C30: after any sequence of arrow-key and 'u' events the cat is strictly
\* inside the playable area, LEFT_EDGE_MAX < catx < RIGHT_EDGE_MAX and
\* TOP_EDGE_MAX < caty < BOTTOM_EDGE_MAX; a move that would reach an edge
\* leaves the position unchanged, and an undo restores a position that is
\* itself inside the area.
\* ------------------------------------------------------------------------
Inside(x, y) ==
    /\ LEFT_EDGE_MAX < x /\ x < RIGHT_EDGE_MAX
    /\ TOP_EDGE_MAX < y /\ y < BOTTOM_EDGE_MAX

Directions == { << 10, 0 >>, << 0, 10 >>, << -10, 0 >>, << 0, -10 >> }

\* A move key: the old position is saved, and the cat goes one stride in the
\* direction of the key unless that would put it on or beyond an edge.
MoveKept ==
    Len(arcade'.movement_history) = Len(arcade.movement_history) + 1
        => /\ arcade'.movement_history
                  = Append(arcade.movement_history, << arcade.catx, arcade.caty >>)
           /\ \E d \in Directions :
                  << arcade'.catx, arcade'.caty >>
                      = IF Inside(arcade.catx + d[1], arcade.caty + d[2])
                        THEN << arcade.catx + d[1], arcade.caty + d[2] >>
                        ELSE << arcade.catx, arcade.caty >>

\* An undo: the cat is back on the last saved position, which is inside.
UndoInside ==
    Len(arcade'.movement_history) = Len(arcade.movement_history) - 1
        => /\ << arcade'.catx, arcade'.caty >>
                  = arcade.movement_history[Len(arcade.movement_history)]
           /\ Inside(arcade'.catx, arcade'.caty)

C30_CatStaysInside ==
    /\ [] (arcade.at = "loop" => Inside(arcade.catx, arcade.caty))
    /\ [][MoveKept /\ UndoInside]_vars

\* Nine moves to the right have brought the cat next to the right edge, and
\* the tenth has left it there.
C30_Witness ==
    /\ arcade.at = "loop"
    /\ arcade.catx = RIGHT_EDGE_MAX - 10
    /\ Len(arcade.movement_history) = 10
    /\ arcade.movement_history[10] = << RIGHT_EDGE_MAX - 10, arcade.caty >>
    /\ arcade.movement_history[1] = << RIGHT_EDGE_MAX - 100, arcade.caty >>

=============================================================================
